---- MODULE Spec2Model ----
(***************************************************************************)
(* SHACL -> XSD lowering engine of xsd2shacl (SHACLtoXSD.py).              *)
(*                                                                         *)
(* The converter object is the state: the loaded shape graph (SHACL), the  *)
(* processed-set, the two shape maps, the schema root under construction   *)
(* and the last finished tree.  The recursion of process_node_shape is     *)
(* unfolded into an explicit call stack; every other function is           *)
(* non-recursive and is an operator applied inside the step that calls it. *)
(*                                                                         *)
(* RDF terms are strings: an IRI or blank node is its identifier, a        *)
(* literal is its Turtle spelling ('a', '', 0, false).  An optional value  *)
(* (the result of Graph.value, or a Python None) is a sequence of length   *)
(* at most one.  An ElementTree element is a record                        *)
(* [tag, attrs, kids, obj]: obj is the Python object identity for the      *)
(* elements the shape maps hold (0 for the others).                        *)
(*                                                                         *)
(* Inside the lowering, get_rdf_list_items is an operator on the lists of  *)
(* the graph, which are acyclic there.  Its loop is also modelled step by  *)
(* step (variable walk) on list cells with arbitrary rest links.           *)
(***************************************************************************)
EXTENDS Integers, Sequences, FiniteSets, TLC

VARIABLES SHACL, processed_shapes, node_shape_map, property_shape_map,
          xsd_root, xsdTree, stack, pc, todo, passes, next_obj, walk

vars == <<SHACL, processed_shapes, node_shape_map, property_shape_map,
          xsd_root, xsdTree, stack, pc, todo, passes, next_obj, walk>>

(***************************************************************************)
(* Bounds of the model.                                                    *)
(***************************************************************************)
MaxPasses == 2
MaxCount == 2
MaxLen == 2
MaxListLen == 3

None == <<>>
Some(v) == <<v>>

RDF_nil == "rdf:nil"

(***************************************************************************)
(* Python / rdflib primitives the code relies on.                          *)
(***************************************************************************)
\* str(term): the lexical form of a literal, the identifier of an IRI.
Str(term) ==
    CASE term = "'a'" -> "a"
      [] term = "'b'" -> "b"
      [] term = "''" -> ""
      [] term = "'[a-z]+'" -> "[a-z]+"
      [] OTHER -> term

\* bool(term): rdflib literals with a false Python value are falsy.
Truthy(term) == term \notin {"''", "0", "false"}

\* str(datatype).split('#')[-1]
LocalName(datatype) ==
    CASE datatype = "http://www.w3.org/2001/XMLSchema#string" -> "string"
      [] datatype = "http://www.w3.org/2001/XMLSchema#integer" -> "integer"
      [] datatype = "http://www.w3.org/2001/XMLSchema#date" -> "date"
      [] OTHER -> datatype

XSD_string == "http://www.w3.org/2001/XMLSchema#string"
XSD_integer == "http://www.w3.org/2001/XMLSchema#integer"
XSD_date == "http://www.w3.org/2001/XMLSchema#date"

\* '@' in str(shape_uri)
UriHasAt(uri) == uri \in {"@q"}
\* name.startswith('@')
StartsWithAt(name) == name \in {"@q", "@n"}
\* name[1:]
StripAt(name) ==
    CASE name = "@q" -> "q"
      [] name = "@n" -> "n"
      [] OTHER -> name

\* The shape identifiers stand for IRIs: "A" for .../NodeShape/A, "p" for
\* .../PropertyShape/p, "@q" for .../PropertyShape/@q; "D1", "D2" are blank
\* nodes.
IsPropertyShapeUri(uri) == uri \in {"p", "@q", "r", "s"}

(***************************************************************************)
(* ElementTree.                                                            *)
(***************************************************************************)
NoAttrs == [a \in {} |-> ""]
Element(tag) == [tag |-> tag, attrs |-> NoAttrs, kids |-> <<>>, obj |-> 0]
SetAttr(e, k, v) == [e EXCEPT !.attrs = (k :> v) @@ @]
DelAttr(e, k) == [e EXCEPT !.attrs = [a \in (DOMAIN @) \ {k} |-> @[a]]]
HasAttr(e, k) == k \in DOMAIN e.attrs
Append1(e, child) == [e EXCEPT !.kids = Append(@, child)]

\* index of the first child with the given tag, 0 if there is none
FirstChild(e, tag) ==
    LET I == {i \in 1..Len(e.kids) : e.kids[i].tag = tag}
    IN IF I = {} THEN 0 ELSE CHOOSE i \in I : \A j \in I : i <= j

(***************************************************************************)
(* get_shape_name                                                          *)
(***************************************************************************)
get_shape_name(shape_uri) ==
    LET name_literal == SHACL.name[shape_uri]
    IN IF name_literal # None /\ Truthy(name_literal[1])
       THEN Str(name_literal[1])
       ELSE IF IsPropertyShapeUri(shape_uri)
            THEN StripAt(shape_uri)
            ELSE shape_uri

(***************************************************************************)
(* get_rdf_list_items: the loop of lines 221-227, on a chain of cells.     *)
(* The recursion follows rest links; Init only builds graphs whose rest    *)
(* chains are acyclic.                                                     *)
(***************************************************************************)
RECURSIVE get_rdf_list_items(_)
get_rdf_list_items(list_node) ==
    IF list_node = RDF_nil THEN <<>>
    ELSE LET item == IF list_node \in DOMAIN SHACL.first
                     THEN SHACL.first[list_node] ELSE None
             next == IF list_node \in DOMAIN SHACL.rest
                     THEN SHACL.rest[list_node] ELSE None
             here == IF item # None /\ Truthy(item[1]) THEN item ELSE <<>>
         IN IF next = None THEN here
            ELSE here \o get_rdf_list_items(next[1])

(***************************************************************************)
(* are_simple_type_constraints                                             *)
(***************************************************************************)
\* one branch with a datatype is enough
are_simple_type_constraints_any(item_list) ==
    \E i \in 1..Len(item_list) : SHACL.datatype[item_list[i]] # None

are_simple_type_constraints(item_list) ==
    \A i \in 1..Len(item_list) : SHACL.datatype[item_list[i]] # None

\* the memberTypes loop of lines 194-199 and 298-303
RECURSIVE member_types(_)
member_types(items) ==
    IF items = <<>> THEN <<>>
    ELSE LET datatype == SHACL.datatype[Head(items)]
         IN (IF datatype # None THEN <<LocalName(datatype[1])>> ELSE <<>>)
            \o member_types(Tail(items))

\* " ".join(member_types)
RECURSIVE Join(_)
Join(strs) ==
    IF strs = <<>> THEN ""
    ELSE IF Len(strs) = 1 THEN strs[1]
    ELSE strs[1] \o " " \o Join(Tail(strs))

\* one child element per value, in order (lines 403-405)
RECURSIVE enumeration_facets(_)
enumeration_facets(values) ==
    IF values = <<>> THEN <<>>
    ELSE <<SetAttr(Element("enumeration"), "value", Str(Head(values)))>>
         \o enumeration_facets(Tail(values))

(***************************************************************************)
(* process_list_constraints (sh:in)                                        *)
(***************************************************************************)
\* lines 377-409: the values of an RDF list
enumeration(element, values, base_type) ==
    IF Len(values) = 1
    THEN DelAttr(SetAttr(element, "fixed", Str(values[1])), "type")
    ELSE IF values # <<>>
    THEN DelAttr(Append1(element,
             Append1(Element("simpleType"),
                 [SetAttr(Element("restriction"), "base", base_type)
                    EXCEPT !.kids = enumeration_facets(values)])),
             "type")
    ELSE element

\* lines 390-393
enumeration_base(datatype) ==
    IF datatype # None THEN LocalName(datatype[1]) ELSE "string"

\* lines 372-416
in_constraint(shape_uri, element, in_value) ==
    IF in_value \in DOMAIN SHACL.first /\ SHACL.first[in_value] # None
    THEN enumeration(element, get_rdf_list_items(in_value),
                     enumeration_base(SHACL.datatype[shape_uri]))
    ELSE IF in_value = RDF_nil
    THEN element
    ELSE SetAttr(element, "fixed", Str(in_value))

process_list_constraints(shape_uri, element) ==
    IF SHACL.in[shape_uri] = <<>> THEN element
    ELSE in_constraint(shape_uri, element, SHACL.in[shape_uri][1])

(***************************************************************************)
(* process_facet_constraints                                               *)
(***************************************************************************)
Facet(tag, value) == SetAttr(Element(tag), "value", value)

\* the pair of bounds is never collapsed
exact_length_as_given(min_length, max_length, length) == length

\* lines 503-504
exact_length(min_length, max_length, length) ==
    IF length = None /\ min_length # None /\ max_length # None
       /\ min_length = max_length
    THEN min_length ELSE length

\* lines 506-517
length_facets(min_length, max_length, exact) ==
    IF exact # None
    THEN <<Facet("length", ToString(exact[1]))>>
    ELSE (IF min_length # None
          THEN <<Facet("minLength", ToString(min_length[1]))>> ELSE <<>>)
         \o (IF max_length # None
             THEN <<Facet("maxLength", ToString(max_length[1]))>> ELSE <<>>)

\* lines 484-498: one numeric facet
numeric_facet(tag, value) ==
    IF value # None THEN <<Facet(tag, ToString(value[1]))>> ELSE <<>>

\* lines 479-481
pattern_facet(pattern) ==
    IF pattern # None /\ Truthy(pattern[1])
    THEN <<Facet("pattern", Str(pattern[1]))>> ELSE <<>>

\* the facets of lines 478-517, in the order the code appends them
facets(shape_uri) ==
    pattern_facet(SHACL.pattern[shape_uri])
    \o numeric_facet("minExclusive", SHACL.minExclusive[shape_uri])
    \o numeric_facet("maxExclusive", SHACL.maxExclusive[shape_uri])
    \o numeric_facet("minInclusive", SHACL.minInclusive[shape_uri])
    \o numeric_facet("maxInclusive", SHACL.maxInclusive[shape_uri])
    \o length_facets(SHACL.minLength[shape_uri], SHACL.maxLength[shape_uri],
                     exact_length(SHACL.minLength[shape_uri],
                                  SHACL.maxLength[shape_uri],
                                  SHACL.length[shape_uri]))

\* lines 429-432
facet_base(datatype) ==
    IF datatype # None THEN LocalName(datatype[1]) ELSE "decimal"

\* line 449: the test that lets the function go on
needs_facets(shape_uri) ==
    \/ SHACL.pattern[shape_uri] # None /\ Truthy(SHACL.pattern[shape_uri][1])
    \/ SHACL.minLength[shape_uri] # None
    \/ SHACL.maxLength[shape_uri] # None
    \/ SHACL.length[shape_uri] # None

\* lines 453-461: the simpleType child, created when missing
with_simple_type(element) ==
    IF FirstChild(element, "simpleType") = 0
    THEN Append1(element, Element("simpleType")) ELSE element

\* lines 463-476: the restriction child of child i, created when missing
with_restriction(element, i, base_type) ==
    IF FirstChild(element.kids[i], "restriction") = 0
    THEN DelAttr([element EXCEPT !.kids[i] =
                    Append1(@, SetAttr(Element("restriction"),
                                       "base", base_type))],
                 "type")
    ELSE element

\* lines 478-517: the facets go to the restriction of child i
add_facets(element, i, new_facets) ==
    [element EXCEPT
       !.kids[i].kids[FirstChild(element.kids[i], "restriction")].kids =
           @ \o new_facets]

restrict(shape_uri, element, i) ==
    add_facets(with_restriction(element, i,
                                facet_base(SHACL.datatype[shape_uri])),
               i, facets(shape_uri))

restrict_first(shape_uri, element) ==
    restrict(shape_uri, element, FirstChild(element, "simpleType"))

process_facet_constraints(shape_uri, element) ==
    IF ~ needs_facets(shape_uri) THEN element
    ELSE restrict_first(shape_uri, with_simple_type(element))

(***************************************************************************)
(* process_property_shape                                                  *)
(***************************************************************************)
\* line 267
is_attribute(shape_uri) ==
    UriHasAt(shape_uri) \/ StartsWithAt(get_shape_name(shape_uri))

\* lines 270-271
strip_marker(is_attr, shape_name) ==
    IF is_attr /\ StartsWithAt(shape_name) THEN StripAt(shape_name)
    ELSE shape_name

\* lines 280-283
new_element(shape_uri) ==
    SetAttr(Element(IF is_attribute(shape_uri) THEN "attribute"
                    ELSE "element"),
            "name", strip_marker(is_attribute(shape_uri),
                                 get_shape_name(shape_uri)))

\* lines 296-309: the content of the inline simpleType of a disjunction
or_content(items) ==
    IF are_simple_type_constraints(items)
    THEN SetAttr(Element("union"), "memberTypes", Join(member_types(items)))
    ELSE SetAttr(Element("restriction"), "base", "string")

\* lines 288-320
or_element(shape_uri, element) ==
    DelAttr(Append1(element,
                Append1(Element("simpleType"),
                    or_content(get_rdf_list_items(SHACL.or[shape_uri][1])))),
            "type")

\* lines 323-327
set_type(element, datatype) ==
    IF datatype # None THEN SetAttr(element, "type", LocalName(datatype[1]))
    ELSE element

\* the lower bound of an element is written whenever it is given
set_min_count_always(element, is_attr, min_count) ==
    IF min_count # None
    THEN IF is_attr
         THEN SetAttr(element, "use",
                      IF min_count[1] > 0 THEN "required" ELSE "optional")
         ELSE SetAttr(element, "minOccurs", ToString(min_count[1]))
    ELSE IF is_attr THEN SetAttr(element, "use", "optional") ELSE element

\* lines 330-344
set_min_count(element, is_attr, min_count) ==
    IF min_count # None
    THEN IF is_attr
         THEN SetAttr(element, "use",
                      IF min_count[1] > 0 THEN "required" ELSE "optional")
         ELSE IF ToString(min_count[1]) # "1"
              THEN SetAttr(element, "minOccurs", ToString(min_count[1]))
              ELSE element
    ELSE IF is_attr THEN SetAttr(element, "use", "optional") ELSE element

\* lines 346-350
set_max_count(element, is_attr, max_count) ==
    IF max_count # None /\ ~ is_attr /\ ToString(max_count[1]) # "1"
    THEN SetAttr(element, "maxOccurs", ToString(max_count[1]))
    ELSE element

\* lines 322-356
constrained_element(shape_uri, element) ==
    process_facet_constraints(shape_uri,
      process_list_constraints(shape_uri,
        set_max_count(
          set_min_count(set_type(element, SHACL.datatype[shape_uri]),
                        is_attribute(shape_uri), SHACL.minCount[shape_uri]),
          is_attribute(shape_uri), SHACL.maxCount[shape_uri])))

\* an element is built whether the shape has a path or not
property_element_pathless(shape_uri) ==
    IF SHACL.or[shape_uri] # <<>> /\ ~ is_attribute(shape_uri)
    THEN Some(or_element(shape_uri, new_element(shape_uri)))
    ELSE Some(constrained_element(shape_uri, new_element(shape_uri)))

\* lines 263-360: the element built for a shape that is not in the
\* processed-set; None for a shape without a path
property_element(shape_uri) ==
    IF SHACL.path[shape_uri] = None THEN None
    ELSE IF SHACL.or[shape_uri] # <<>> /\ ~ is_attribute(shape_uri)
    THEN Some(or_element(shape_uri, new_element(shape_uri)))
    ELSE Some(constrained_element(shape_uri, new_element(shape_uri)))

\* lines 282, 319, 359: the element is a new object, kept in the map
remember(st, shape_uri, element) ==
    [processed |-> st.processed \cup {shape_uri},
     pmap |-> (shape_uri :> [element EXCEPT !.obj = st.next_obj]) @@ st.pmap,
     next_obj |-> st.next_obj + 1,
     ret |-> Some([element EXCEPT !.obj = st.next_obj])]

\* lines 261-360
lower_property(st, shape_uri, built) ==
    IF built = None
    THEN [st EXCEPT !.processed = @ \cup {shape_uri}, !.ret = None]
    ELSE remember(st, shape_uri, built[1])

\* the shape is lowered again on every call
process_property_shape_uncached(st, shape_uri) ==
    lower_property(st, shape_uri, property_element(shape_uri))

\* process_property_shape on the registry st = [processed, pmap, next_obj,
\* ret]; ret is the value returned
process_property_shape(st, shape_uri) ==
    IF shape_uri \in st.processed
    THEN [st EXCEPT !.ret = IF shape_uri \in DOMAIN st.pmap
                            THEN Some(st.pmap[shape_uri]) ELSE None]
    ELSE lower_property(st, shape_uri, property_element(shape_uri))

(***************************************************************************)
(* The shape graphs the converter is loaded with.                          *)
(***************************************************************************)
Subjects == {"A", "B", "U", "D1", "D2", "p", "@q", "r", "s"}
Cells == {"l1", "l2", "u1", "u2", "m1", "n1", "w1", "e1", "e2", "e3", "e4",
          "e5"}

NoValues == [s \in Subjects |-> None]

\* the list cells shared by all graphs: (p B), (D1 D2), (D1 B), (r B), (U)
ShapeLists ==
    [first |-> [c \in Cells |->
                  CASE c = "l1" -> Some("p")
                    [] c = "l2" -> Some("B")
                    [] c = "u1" -> Some("D1")
                    [] c = "u2" -> Some("D2")
                    [] c = "m1" -> Some("D1")
                    [] c = "n1" -> Some("r")
                    [] c = "w1" -> Some("U")
                    [] OTHER -> None],
     rest |-> [c \in Cells |->
                  CASE c = "l1" -> Some("l2")
                    [] c = "l2" -> Some(RDF_nil)
                    [] c = "u1" -> Some("u2")
                    [] c = "u2" -> Some(RDF_nil)
                    [] c = "m1" -> Some("l2")
                    [] c = "n1" -> Some("l2")
                    [] c = "w1" -> Some(RDF_nil)
                    [] OTHER -> None]]

\* the cells e1, e2, ... of a well-formed list holding the given values
EnumCell(i) == <<"e1", "e2", "e3", "e4", "e5">>[i]
WithList(cells, values) ==
    [first |-> [c \in Cells |->
                  IF \E i \in 1..Len(values) : c = EnumCell(i)
                  THEN Some(values[CHOOSE i \in 1..Len(values) : c = EnumCell(i)])
                  ELSE cells.first[c]],
     rest |-> [c \in Cells |->
                  IF \E i \in 1..Len(values) : c = EnumCell(i)
                  THEN LET i == CHOOSE k \in 1..Len(values) : c = EnumCell(k)
                       IN Some(IF i = Len(values) THEN RDF_nil
                               ELSE EnumCell(i + 1))
                  ELSE cells.rest[c]]]

\* a graph with no property values; D1 and D2 are the datatype-only
\* branches of a disjunction
BaseGraph ==
    [node_shapes |-> <<>>, property_shapes |-> <<>>,
     name |-> NoValues, node |-> NoValues, xone |-> NoValues,
     or |-> NoValues,
     property |-> [s \in Subjects |-> <<>>],
     targetClass |-> [s \in Subjects |-> <<>>],
     path |-> NoValues,
     datatype |-> [NoValues EXCEPT !["D1"] = Some(XSD_string),
                                   !["D2"] = Some(XSD_integer)],
     minCount |-> NoValues, maxCount |-> NoValues,
     in |-> NoValues, pattern |-> NoValues,
     minExclusive |-> NoValues, maxExclusive |-> NoValues,
     minInclusive |-> NoValues, maxInclusive |-> NoValues,
     minLength |-> NoValues, maxLength |-> NoValues, length |-> NoValues,
     first |-> ShapeLists.first, rest |-> ShapeLists.rest]

\* Node shapes A and B over the property shapes p, @q, r (no path) and the
\* standalone s; U is referenced but has no triples of its own.
StructGraph(order, nodeA, nodeB, xoneA, orA, propA, propB, tcA, tcB) ==
    [BaseGraph EXCEPT
       !.node_shapes = order,
       !.property_shapes = <<"p", "@q", "r", "s">>,
       !.name = [NoValues EXCEPT !["B"] = Some("'b'")],
       !.node = [NoValues EXCEPT !["A"] = nodeA, !["B"] = nodeB],
       !.xone = [NoValues EXCEPT !["A"] = xoneA],
       !.or = [NoValues EXCEPT !["A"] = orA],
       !.property = [@ EXCEPT !["A"] = propA, !["B"] = propB],
       !.targetClass = [@ EXCEPT !["A"] = tcA, !["B"] = tcB],
       !.path = [NoValues EXCEPT !["p"] = Some("ex:p"), !["@q"] = Some("ex:q"),
                                 !["s"] = Some("ex:s")],
       !.datatype = [@ EXCEPT !["p"] = Some(XSD_string),
                              !["@q"] = Some(XSD_string),
                              !["s"] = Some(XSD_integer)],
       !.minCount = [NoValues EXCEPT !["@q"] = Some(1)]]

Opt(S) == {None} \cup {Some(v) : v \in S}

InitStruct ==
    \E order \in {<<"A", "B">>, <<"B", "A">>},
       nodeA \in Opt({"A", "B", "U"}), nodeB \in Opt({"A"}),
       xoneA \in Opt({"l1"}), orA \in Opt({"u1", "m1", "l1", "n1", "w1"}),
       propA \in {<<>>, <<"p">>, <<"@q">>, <<"p", "@q">>, <<"r", "p">>,
                  <<"r">>},
       propB \in {<<>>, <<"r", "p">>},
       tcA \in {<<>>, <<"ex:A">>, <<"ex:A", "ex:A2">>},
       tcB \in {<<>>, <<"ex:B">>} :
      SHACL = StructGraph(order, nodeA, nodeB, xoneA, orA, propA, propB,
                          tcA, tcB)

\* The constraints of one property shape.
NoConstraints ==
    [path |-> Some("ex:path"), datatype |-> None, minCount |-> None,
     maxCount |-> None, in |-> None, values |-> <<>>, or |-> None,
     pattern |-> None, minExclusive |-> None, maxExclusive |-> None,
     minInclusive |-> None, maxInclusive |-> None, minLength |-> None,
     maxLength |-> None, length |-> None]

\* Node shape A with the single property shape x constrained by c; the
\* sh:in list of c.values starts at cell e1.
PropGraph(x, c) ==
    [BaseGraph EXCEPT
       !.node_shapes = <<"A">>,
       !.property_shapes = <<x>>,
       !.property["A"] = <<x>>,
       !.path[x] = c.path,
       !.datatype[x] = c.datatype,
       !.minCount[x] = c.minCount,
       !.maxCount[x] = c.maxCount,
       !.in[x] = c.in,
       !.or[x] = c.or,
       !.pattern[x] = c.pattern,
       !.minExclusive[x] = c.minExclusive,
       !.maxExclusive[x] = c.maxExclusive,
       !.minInclusive[x] = c.minInclusive,
       !.maxInclusive[x] = c.maxInclusive,
       !.minLength[x] = c.minLength,
       !.maxLength[x] = c.maxLength,
       !.length[x] = c.length,
       !.first = WithList(ShapeLists, c.values).first,
       !.rest = WithList(ShapeLists, c.values).rest]

Datatypes == Opt({XSD_string, XSD_integer})
Payloads == {"'a'", "'b'", "0"}
Lists == UNION {[1..n -> Payloads] : n \in 1..MaxListLen}

\* cardinality
CardinalityConstraints ==
    {[NoConstraints EXCEPT !.path = path, !.datatype = datatype,
                           !.minCount = min_count, !.maxCount = max_count] :
       path \in Opt({"ex:path"}), datatype \in Datatypes,
       min_count \in Opt(0..MaxCount), max_count \in Opt(0..MaxCount)}

\* sh:in: a list, rdf:nil or a single value, possibly with a pattern
EnumerationConstraints ==
    {[NoConstraints EXCEPT !.datatype = datatype, !.in = Some("e1"),
                           !.values = values, !.pattern = pattern] :
       datatype \in Opt({XSD_string}), values \in Lists,
       pattern \in Opt({"'[a-z]+'"})}
    \cup
    {[NoConstraints EXCEPT !.datatype = datatype, !.in = Some(in_value),
                           !.pattern = pattern] :
       datatype \in Opt({XSD_string}), in_value \in {RDF_nil, "'a'"},
       pattern \in Opt({"'[a-z]+'"})}

\* the numeric bounds: none, one of them, or all four
NumericBounds ==
    {<<None, None, None, None>>, <<Some(0), None, None, None>>,
     <<None, None, None, Some(MaxCount)>>,
     <<Some(0), Some(3), Some(1), Some(MaxCount)>>}

\* pattern, numeric and length facets, possibly after an enumeration
FacetConstraints ==
    {[NoConstraints EXCEPT
        !.datatype = datatype, !.pattern = pattern,
        !.minExclusive = numeric[1], !.maxExclusive = numeric[2],
        !.minInclusive = numeric[3], !.maxInclusive = numeric[4],
        !.minLength = min_length, !.maxLength = max_length,
        !.length = length,
        !.in = IF values = <<>> THEN None ELSE Some("e1"),
        !.values = values] :
       datatype \in Datatypes, pattern \in Opt({"''", "'[a-z]+'"}),
       numeric \in NumericBounds,
       min_length \in Opt(0..MaxLen), max_length \in Opt(0..MaxLen),
       length \in Opt(0..MaxLen), values \in {<<>>, <<"'a'", "'b'">>}}

\* a property-level sh:or
DisjunctionConstraints ==
    {[NoConstraints EXCEPT !.datatype = datatype, !.or = Some(list)] :
       datatype \in Datatypes, list \in {"u1", "m1"}}

InitProperty ==
    \E x \in {"p", "@q"},
       c \in CardinalityConstraints \cup EnumerationConstraints
             \cup FacetConstraints \cup DisjunctionConstraints :
      SHACL = PropGraph(x, c)


\* no call of get_rdf_list_items is being followed step by step
NotWalking ==
    [pc |-> "idle", list_node |-> RDF_nil, items |-> <<>>, odd |-> FALSE]

(***************************************************************************)
(* Initial state: a converter after __init__ and load_shacl_file.          *)
(***************************************************************************)
Init ==
    /\ InitStruct \/ InitProperty
    /\ processed_shapes = {}
    /\ node_shape_map = <<>>
    /\ property_shape_map = <<>>
    /\ xsd_root = None
    /\ xsdTree = None
    /\ stack = <<>>
    /\ pc = "idle"
    /\ todo = <<>>
    /\ passes = 0
    /\ next_obj = 1
    /\ walk = NotWalking

(***************************************************************************)
(* Call frames of process_node_shape.  A frame holds the locals:           *)
(* shape_uri, the complex type under construction, whether extension is    *)
(* not None, the index of the choice group inside the container, the list  *)
(* items still to process, and the value returned by the last callee.      *)
(***************************************************************************)
Frame(shape_uri) ==
    [shape_uri |-> shape_uri, pc |-> "enter", complex_type |-> Element("?"),
     extension |-> FALSE, group |-> 0, items |-> <<>>, ret |-> None]

Top == stack[Len(stack)]
SetTop(f) == [stack EXCEPT ![Len(stack)] = f]
Call(f, shape_uri) == Append(SetTop(f), Frame(shape_uri))
\* return value to the caller's frame (convert ignores the result)
Return(value) ==
    IF Len(stack) = 1 THEN <<>>
    ELSE [SubSeq(stack, 1, Len(stack) - 1)
            EXCEPT ![Len(stack) - 1].ret = value]

\* container = extension if extension is not None else complex_type
ContainerKids(ct, extension) ==
    IF extension THEN ct.kids[1].kids[1].kids ELSE ct.kids

\* append child to the container (group = 0) or to the container's child
\* number group
AppendIn(ct, extension, group, child) ==
    IF extension
    THEN IF group = 0
         THEN [ct EXCEPT !.kids[1].kids[1].kids = Append(@, child)]
         ELSE [ct EXCEPT !.kids[1].kids[1].kids[group].kids = Append(@, child)]
    ELSE IF group = 0
         THEN [ct EXCEPT !.kids = Append(@, child)]
         ELSE [ct EXCEPT !.kids[group].kids = Append(@, child)]

Registry == [processed |-> processed_shapes, pmap |-> property_shape_map,
             next_obj |-> next_obj, ret |-> None]

\* lines 87-89: the shape is already in the processed-set
process_node_shape_cached ==
    /\ stack # <<>> /\ Top.pc = "enter"
    /\ Top.shape_uri \in processed_shapes
    /\ stack' = Return(IF Top.shape_uri \in DOMAIN node_shape_map
                       THEN Some(node_shape_map[Top.shape_uri]) ELSE None)
    /\ UNCHANGED <<walk, SHACL, processed_shapes, node_shape_map,
                   property_shape_map, xsd_root, xsdTree, pc, todo, passes,
                   next_obj>>

\* the processed-set is left as it is
mark_processed_never(shape_uri) == processed_shapes

\* line 91
mark_processed(shape_uri) == processed_shapes \cup {shape_uri}

\* lines 91-99
process_node_shape_begin ==
    /\ stack # <<>> /\ Top.pc = "enter"
    /\ Top.shape_uri \notin processed_shapes
    /\ processed_shapes' = mark_processed(Top.shape_uri)
    /\ stack' = SetTop([Top EXCEPT
            !.pc = "node",
            !.complex_type =
                [SetAttr(Element("complexType"), "name",
                         get_shape_name(Top.shape_uri))
                   EXCEPT !.obj = next_obj]])
    /\ next_obj' = next_obj + 1
    /\ UNCHANGED <<walk, SHACL, node_shape_map, property_shape_map, xsd_root,
                   xsdTree, pc, todo, passes>>

\* lines 102-107: the recursive call on the sh:node base
process_node_shape_node ==
    /\ stack # <<>> /\ Top.pc = "node"
    /\ stack' = IF SHACL.node[Top.shape_uri] # None
                THEN Call([Top EXCEPT !.pc = "node_ret"],
                          SHACL.node[Top.shape_uri][1])
                ELSE SetTop([Top EXCEPT !.pc = "xone"])
    /\ UNCHANGED <<walk, SHACL, processed_shapes, node_shape_map,
                   property_shape_map, xsd_root, xsdTree, pc, todo, passes,
                   next_obj>>

\* the extension is created whatever the base call returned
process_node_shape_extension_always ==
    /\ stack # <<>> /\ Top.pc = "node_ret"
    /\ stack' = SetTop([Top EXCEPT
           !.pc = "xone", !.extension = TRUE, !.ret = None,
           !.complex_type =
               Append1(@, Append1(Element("complexContent"),
                   SetAttr(Element("extension"), "base",
                       get_shape_name(SHACL.node[Top.shape_uri][1]))))])
    /\ UNCHANGED <<walk, SHACL, processed_shapes, node_shape_map,
                   property_shape_map, xsd_root, xsdTree, pc, todo, passes,
                   next_obj>>

\* lines 108-112: the extension, when the base call returned a complex type
process_node_shape_extension ==
    /\ stack # <<>> /\ Top.pc = "node_ret"
    /\ LET base_shape_uri == SHACL.node[Top.shape_uri][1]
           extension == SetAttr(Element("extension"), "base",
                                get_shape_name(base_shape_uri))
           complex_content == Append1(Element("complexContent"), extension)
       IN stack' = SetTop(
            IF Top.ret # None
            THEN [Top EXCEPT !.pc = "xone", !.extension = TRUE, !.ret = None,
                             !.complex_type = Append1(@, complex_content)]
            ELSE [Top EXCEPT !.pc = "xone"])
    /\ UNCHANGED <<walk, SHACL, processed_shapes, node_shape_map,
                   property_shape_map, xsd_root, xsdTree, pc, todo, passes,
                   next_obj>>

\* lines 115-119 and 181-183: sh:xone opens a choice in the container
process_node_shape_xone ==
    /\ stack # <<>> /\ Top.pc = "xone"
    /\ LET xone_nodes == SHACL.xone[Top.shape_uri]
           ct == AppendIn(Top.complex_type, Top.extension, 0,
                          Element("choice"))
       IN stack' = SetTop(
            IF xone_nodes # <<>>
            THEN [Top EXCEPT !.pc = "xone_items", !.complex_type = ct,
                     !.group = Len(ContainerKids(ct, Top.extension)),
                     !.items = get_rdf_list_items(xone_nodes[1])]
            ELSE [Top EXCEPT !.pc = "or"])
    /\ UNCHANGED <<walk, SHACL, processed_shapes, node_shape_map,
                   property_shape_map, xsd_root, xsdTree, pc, todo, passes,
                   next_obj>>

\* lines 122-125 and 185-203: sh:or becomes a union or opens a choice
process_node_shape_or ==
    /\ stack # <<>> /\ Top.pc = "or"
    /\ LET or_nodes == SHACL.or[Top.shape_uri]
           items == get_rdf_list_items(or_nodes[1])
           union == SetAttr(Element("union"), "memberTypes",
                            Join(member_types(items)))
           simple_type == Append1(Element("simpleType"), union)
           ct == AppendIn(Top.complex_type, Top.extension, 0,
                          Element("choice"))
       IN stack' = SetTop(
            IF or_nodes = <<>>
            THEN [Top EXCEPT !.pc = "property"]
            ELSE IF are_simple_type_constraints(items)
            THEN [Top EXCEPT !.pc = "property",
                     !.complex_type = AppendIn(@, Top.extension, 0,
                                               simple_type)]
            ELSE [Top EXCEPT !.pc = "or_items", !.complex_type = ct,
                     !.group = Len(ContainerKids(ct, Top.extension)),
                     !.items = items])
    /\ UNCHANGED <<walk, SHACL, processed_shapes, node_shape_map,
                   property_shape_map, xsd_root, xsdTree, pc, todo, passes,
                   next_obj>>

InList == stack # <<>> /\ Top.pc \in {"xone_items", "or_items"}
is_property(item) ==
    \E i \in 1..Len(SHACL.property_shapes) : SHACL.property_shapes[i] = item

\* lines 241-243: the lowered property goes into the group
append_list_item(r) ==
    /\ processed_shapes' = r.processed
    /\ property_shape_map' = r.pmap
    /\ next_obj' = r.next_obj
    /\ stack' = SetTop([Top EXCEPT
           !.items = Tail(@),
           !.complex_type =
               IF r.ret # None
               THEN AppendIn(@, Top.extension, Top.group, r.ret[1])
               ELSE @])

\* lines 236-243: a list item typed sh:PropertyShape
process_rdf_list_property ==
    /\ InList /\ Top.items # <<>> /\ is_property(Head(Top.items))
    /\ append_list_item(process_property_shape(Registry, Head(Top.items)))
    /\ UNCHANGED <<walk, SHACL, node_shape_map, xsd_root, xsdTree, pc, todo,
                   passes>>

\* lines 244-246: any other list item is lowered as a node shape
process_rdf_list_node ==
    /\ InList /\ Top.items # <<>> /\ ~ is_property(Head(Top.items))
    /\ stack' = Call([Top EXCEPT !.pc = IF @ = "xone_items" THEN "xone_ret"
                                        ELSE "or_ret"],
                     Head(Top.items))
    /\ UNCHANGED <<walk, SHACL, processed_shapes, node_shape_map,
                   property_shape_map, xsd_root, xsdTree, pc, todo, passes,
                   next_obj>>

\* lines 247-251: a reference element for the lowered node shape
process_rdf_list_ref ==
    /\ stack # <<>> /\ Top.pc \in {"xone_ret", "or_ret"}
    /\ LET ref_elem == SetAttr(Element("element"), "ref",
                               get_shape_name(Head(Top.items)))
       IN stack' = SetTop([Top EXCEPT
              !.pc = IF @ = "xone_ret" THEN "xone_items" ELSE "or_items",
              !.items = Tail(@), !.ret = None,
              !.complex_type =
                  IF Top.ret # None
                  THEN AppendIn(@, Top.extension, Top.group, ref_elem)
                  ELSE @])
    /\ UNCHANGED <<walk, SHACL, processed_shapes, node_shape_map,
                   property_shape_map, xsd_root, xsdTree, pc, todo, passes,
                   next_obj>>

\* after the sh:xone list the disjunction is passed over
process_rdf_list_done_exclusive ==
    /\ InList /\ Top.items = <<>>
    /\ stack' = SetTop([Top EXCEPT !.pc = "property"])
    /\ UNCHANGED <<walk, SHACL, processed_shapes, node_shape_map,
                   property_shape_map, xsd_root, xsdTree, pc, todo, passes,
                   next_obj>>

\* the end of the loop of process_rdf_list
process_rdf_list_done ==
    /\ InList /\ Top.items = <<>>
    /\ stack' = SetTop([Top EXCEPT !.pc = IF @ = "xone_items" THEN "or"
                                          ELSE "property"])
    /\ UNCHANGED <<walk, SHACL, processed_shapes, node_shape_map,
                   property_shape_map, xsd_root, xsdTree, pc, todo, passes,
                   next_obj>>

\* every lowered property goes into the group, attributes included
attach_in_group(ct, extension, group, ret) ==
    IF ret = None THEN ct
    ELSE AppendIn(ct, extension, group, ret[1])

\* lines 143-147: where the lowered property goes
attach(ct, extension, group, ret) ==
    IF ret = None THEN ct
    ELSE IF ret[1].tag = "element"
    THEN AppendIn(ct, extension, group, ret[1])
    ELSE IF ret[1].tag = "attribute"
    THEN Append1(ct, ret[1])
    ELSE ct

\* lines 141-147: the loop over the sh:property values; r is the registry,
\* group the index of the all group in the container (0: the container)
RECURSIVE property_loop(_, _, _, _, _)
property_next(r2, ct, extension, group, property_nodes) ==
    property_loop(r2, attach(ct, extension, group, r2.ret), extension, group,
                  property_nodes)
property_loop(r, ct, extension, group, property_nodes) ==
    IF property_nodes = <<>> THEN [r |-> r, complex_type |-> ct]
    ELSE property_next(process_property_shape(r, Head(property_nodes)),
                       ct, extension, group, Tail(property_nodes))

\* lines 161-168: the type of the top-level element
element_type(shape_uri, ct, extension) ==
    IF /\ extension
       /\ \A i \in 1..Len(ct.kids) : ct.kids[i].tag = "complexContent"
       /\ SHACL.property[shape_uri] = <<>>
    THEN ct.kids[1].kids[1].attrs["base"]
    ELSE ct.attrs["name"]

\* lines 156-170: one top-level element per target class
RECURSIVE target_elements(_, _, _, _)
target_elements(shape_uri, ct, extension, target_classes) ==
    IF target_classes = <<>> THEN <<>>
    ELSE <<SetAttr(SetAttr(Element("element"), "name",
                           get_shape_name(shape_uri)),
                   "type", element_type(shape_uri, ct, extension))>>
         \o target_elements(shape_uri, ct, extension, Tail(target_classes))

\* lines 130-138: the all group, unless the shape has sh:xone or sh:or
with_all(shape_uri) ==
    /\ SHACL.property[shape_uri] # <<>>
    /\ SHACL.xone[shape_uri] = <<>>
    /\ SHACL.or[shape_uri] = <<>>

lower_properties(shape_uri, ct, extension) ==
    property_loop(Registry, ct, extension,
                  IF with_all(shape_uri)
                  THEN Len(ContainerKids(ct, extension)) ELSE 0,
                  SHACL.property[shape_uri])

\* the complex type is kept in the map and never reaches the schema root
store_node_shape_unrooted(shape_uri, extension, done) ==
    /\ processed_shapes' = done.r.processed
    /\ property_shape_map' = done.r.pmap
    /\ next_obj' = done.r.next_obj
    /\ node_shape_map' = (shape_uri :> done.complex_type) @@ node_shape_map
    /\ xsd_root' =
         Some([xsd_root[1] EXCEPT !.kids =
                 @ \o target_elements(shape_uri, done.complex_type, extension,
                                      SHACL.targetClass[shape_uri])])
    /\ stack' = Return(Some(done.complex_type))

\* the complex type goes to the schema root before its top-level elements
store_node_shape_type_first(shape_uri, extension, done) ==
    /\ processed_shapes' = done.r.processed
    /\ property_shape_map' = done.r.pmap
    /\ next_obj' = done.r.next_obj
    /\ node_shape_map' = (shape_uri :> done.complex_type) @@ node_shape_map
    /\ xsd_root' =
         Some([xsd_root[1] EXCEPT !.kids =
                 @ \o <<done.complex_type>>
                   \o target_elements(shape_uri, done.complex_type, extension,
                                      SHACL.targetClass[shape_uri])])
    /\ stack' = Return(Some(done.complex_type))

\* lines 150-174
store_node_shape(shape_uri, extension, done) ==
    /\ processed_shapes' = done.r.processed
    /\ property_shape_map' = done.r.pmap
    /\ next_obj' = done.r.next_obj
    /\ node_shape_map' = (shape_uri :> done.complex_type) @@ node_shape_map
    /\ xsd_root' =
         Some([xsd_root[1] EXCEPT !.kids =
                 @ \o target_elements(shape_uri, done.complex_type, extension,
                                      SHACL.targetClass[shape_uri])
                   \o <<done.complex_type>>])
    /\ stack' = Return(Some(done.complex_type))

\* lines 127-174: properties, shape map, target elements, schema root
process_node_shape_finish ==
    /\ stack # <<>> /\ Top.pc = "property"
    /\ store_node_shape(Top.shape_uri, Top.extension,
         lower_properties(Top.shape_uri,
             IF with_all(Top.shape_uri)
             THEN AppendIn(Top.complex_type, Top.extension, 0, Element("all"))
             ELSE Top.complex_type,
             Top.extension))
    /\ UNCHANGED <<walk, SHACL, xsdTree, pc, todo, passes>>

(***************************************************************************)
(* convert                                                                 *)
(***************************************************************************)
\* create_xsd_root (lines 43-60)
create_xsd_root ==
    SetAttr(SetAttr(Element("schema"), "elementFormDefault", "qualified"),
            "attributeFormDefault", "unqualified")

\* lines 528-531
convert_begin ==
    /\ pc \in {"idle", "done"} /\ passes < MaxPasses
    /\ xsd_root' = Some(create_xsd_root)
    /\ todo' = SHACL.node_shapes
    /\ pc' = "node_shapes"
    /\ passes' = passes + 1
    /\ UNCHANGED <<walk, SHACL, processed_shapes, node_shape_map,
                   property_shape_map, xsdTree, stack, next_obj>>

\* lines 534-535: the call for the next node shape
convert_node_shape ==
    /\ pc = "node_shapes" /\ stack = <<>> /\ todo # <<>>
    /\ stack' = <<Frame(Head(todo))>>
    /\ todo' = Tail(todo)
    /\ UNCHANGED <<walk, SHACL, processed_shapes, node_shape_map,
                   property_shape_map, xsd_root, xsdTree, pc, passes,
                   next_obj>>

\* lines 542-547: the loop over the property shapes not yet processed
RECURSIVE standalone_loop(_, _, _)
standalone_next(r2, root, property_shapes) ==
    standalone_loop(r2,
        IF r2.ret # None /\ r2.ret[1].tag = "element"
        THEN Append1(root, r2.ret[1]) ELSE root,
        property_shapes)
standalone_loop(r, root, property_shapes) ==
    IF property_shapes = <<>> THEN [r |-> r, root |-> root]
    ELSE standalone_next(process_property_shape(r, Head(property_shapes)),
                         root, Tail(property_shapes))

\* line 539
unprocessed_property_shapes ==
    LET NotProcessed(ps) == ps \notin processed_shapes
    IN SelectSeq(SHACL.property_shapes, NotProcessed)

\* lines 547-550
store_tree(done) ==
    /\ processed_shapes' = done.r.processed
    /\ property_shape_map' = done.r.pmap
    /\ next_obj' = done.r.next_obj
    /\ xsd_root' = Some(done.root)
    /\ xsdTree' = Some(done.root)

\* lines 538-550
convert_property_shapes ==
    /\ pc = "node_shapes" /\ stack = <<>> /\ todo = <<>>
    /\ store_tree(standalone_loop(Registry, xsd_root[1],
                                  unprocessed_property_shapes))
    /\ pc' = "done"
    /\ UNCHANGED <<walk, SHACL, node_shape_map, stack, todo, passes>>

Next ==
    \/ convert_begin
    \/ convert_node_shape
    \/ convert_property_shapes
    \/ process_node_shape_cached
    \/ process_node_shape_begin
    \/ process_node_shape_node
    \/ process_node_shape_extension
    \/ process_node_shape_xone
    \/ process_node_shape_or
    \/ process_rdf_list_property
    \/ process_rdf_list_node
    \/ process_rdf_list_ref
    \/ process_rdf_list_done
    \/ process_node_shape_finish

Spec == Init /\ [][Next]_vars

(***************************************************************************)
(* get_rdf_list_items step by step, on the list cells e1, e2, e3 with any  *)
(* payload or none and any rest link or none: well-formed lists, cells     *)
(* without rest, and rest links that lead back to an earlier cell.         *)
(***************************************************************************)
WalkCells == {"e1", "e2", "e3"}

\* the number of items kept in the model; the loop does not read items
MaxWalk == 3

WalkGraph(firsts, rests) ==
    [BaseGraph EXCEPT
       !.first = [c \in Cells |-> IF c \in WalkCells THEN firsts[c] ELSE @[c]],
       !.rest = [c \in Cells |-> IF c \in WalkCells THEN rests[c] ELSE @[c]]]

\* get_rdf_list_items(e1) has been called (line 220)
WalkInit ==
    /\ \E firsts \in [WalkCells -> Opt({"'a'", "0"})],
          rests \in [WalkCells -> Opt({RDF_nil} \cup WalkCells)] :
         SHACL = WalkGraph(firsts, rests)
    /\ processed_shapes = {}
    /\ node_shape_map = <<>>
    /\ property_shape_map = <<>>
    /\ xsd_root = None
    /\ xsdTree = None
    /\ stack = <<>>
    /\ pc = "idle"
    /\ todo = <<>>
    /\ passes = 0
    /\ next_obj = 1
    /\ walk = [pc |-> "loop", list_node |-> "e1", items |-> <<>>,
               odd |-> FALSE]

\* items.append(item), lines 223-224
append_item(items, item) ==
    IF item # None /\ Truthy(item[1])
    THEN IF Len(items) < MaxWalk THEN Append(items, item[1]) ELSE items
    ELSE items

\* lines 225-227: the next cell, or the break
advance(w, next) ==
    IF next = None \/ ~ Truthy(next[1])
    THEN [w EXCEPT !.pc = "returned"]
    ELSE [w EXCEPT !.list_node = next[1]]

\* lines 221-227: one iteration of the loop; odd is the parity of the
\* number of iterations done
walk_step ==
    /\ walk.pc = "loop" /\ walk.list_node # RDF_nil
    /\ walk' = advance([walk EXCEPT !.odd = ~ @, !.items =
                           append_item(@, SHACL.first[walk.list_node])],
                       SHACL.rest[walk.list_node])
    /\ UNCHANGED <<SHACL, processed_shapes, node_shape_map,
                   property_shape_map, xsd_root, xsdTree, stack, pc, todo,
                   passes, next_obj>>

\* lines 221 and 228: the loop ends at rdf:nil
walk_return ==
    /\ walk.pc = "loop" /\ walk.list_node = RDF_nil
    /\ walk' = [walk EXCEPT !.pc = "returned"]
    /\ UNCHANGED <<SHACL, processed_shapes, node_shape_map,
                   property_shape_map, xsd_root, xsdTree, stack, pc, todo,
                   passes, next_obj>>

WalkNext == walk_step \/ walk_return

\* the loop is sequential code: it goes on as long as it can
WalkSpec == WalkInit /\ [][WalkNext]_vars /\ WF_vars(WalkNext)

TypeOK == passes \in 0..MaxPasses

(***************************************************************************)
(* Notions the properties are stated with.                                 *)
(***************************************************************************)
\* the members of a well-formed RDF list, in chain order
RECURSIVE ListMembers(_)
ListMembers(cell) ==
    IF cell = RDF_nil THEN <<>>
    ELSE <<SHACL.first[cell][1]>> \o ListMembers(SHACL.rest[cell][1])

\* the shapes whose lowering has begun and not finished
InProgress == {stack[i].shape_uri : i \in {j \in 1..Len(stack) : stack[j].pc # "enter"}}

\* a node and everything below it
RECURSIVE Nodes(_)
Nodes(e) == {e} \cup UNION {Nodes(e.kids[i]) : i \in 1..Len(e.kids)}

\* how many times the object obj occurs below e
RECURSIVE Occurrences(_, _), SumOccurrences(_, _, _)
SumOccurrences(e, obj, n) ==
    IF n = 0 THEN 0
    ELSE Occurrences(e.kids[n], obj) + SumOccurrences(e, obj, n - 1)
Occurrences(e, obj) ==
    (IF e.obj = obj THEN 1 ELSE 0) + SumOccurrences(e, obj, Len(e.kids))

\* a tree without the object identities
RECURSIVE Plain(_)
Plain(e) == [tag |-> e.tag, attrs |-> e.attrs,
             kids |-> [i \in 1..Len(e.kids) |-> Plain(e.kids[i])]]

(***************************************************************************)
(* C1: process_node_shape terminates on every finite shape graph, cyclic   *)
(* sh:node chains included: no shape identity is being lowered twice at   *)
(* the same time, the depth of the recursion is bounded by the number of   *)
(* identities in the processed-set, and every step of a running convert    *)
(* decreases the variant below.                                            *)
(***************************************************************************)
MaxItems == Cardinality(Cells)

\* the steps a call frame can still take by itself
FrameRank(f) ==
    CASE f.pc = "enter" -> 1
      [] f.pc = "node" -> 8 + 6 * MaxItems
      [] f.pc = "node_ret" -> 6 + 6 * MaxItems
      [] f.pc = "xone" -> 5 + 6 * MaxItems
      [] f.pc = "xone_items" -> 4 + 3 * MaxItems + 3 * Len(f.items)
      [] f.pc = "xone_ret" -> 2 + 3 * MaxItems + 3 * Len(f.items)
      [] f.pc = "or" -> 3 + 3 * MaxItems
      [] f.pc = "or_items" -> 2 + 3 * Len(f.items)
      [] f.pc = "or_ret" -> 3 * Len(f.items)
      [] f.pc = "property" -> 1

RECURSIVE StackRank(_)
StackRank(n) == IF n = 0 THEN 0 ELSE FrameRank(stack[n]) + StackRank(n - 1)

Variant ==
    (9 + 6 * MaxItems) * Cardinality(Subjects \ processed_shapes)
    + 2 * Len(todo) + (IF pc = "node_shapes" THEN 1 ELSE 0)
    + StackRank(Len(stack))

C1_NoReentry ==
    /\ \A i, j \in 1..Len(stack) :
         i < j /\ stack[j].pc # "enter"
           => stack[i].shape_uri # stack[j].shape_uri
    /\ InProgress \subseteq processed_shapes
    /\ Len(stack) <= Cardinality(processed_shapes) + 1

ReturnPoints == {"node_ret", "xone_ret", "or_ret"}

\* the shape the frame f has called process_node_shape on
Callee(f) ==
    IF f.pc = "node_ret" THEN SHACL.node[f.shape_uri][1] ELSE Head(f.items)

\* the complex type object created for the node shape s, finished or not
NodeObject(s) ==
    IF s \in DOMAIN node_shape_map THEN node_shape_map[s].obj
    ELSE LET i == CHOOSE j \in 1..Len(stack) :
                    stack[j].shape_uri = s /\ stack[j].pc # "enter"
         IN stack[i].complex_type.obj

MappedObjects ==
    {node_shape_map[s].obj : s \in DOMAIN node_shape_map}
    \cup {property_shape_map[s].obj : s \in DOMAIN property_shape_map}

C2_Original ==
    /\ stack # <<>> /\ Top.pc \in ReturnPoints
         => Top.ret # None /\ Top.ret[1].obj = NodeObject(Callee(Top))
    /\ pc = "done" /\ passes = 1
         => \A obj \in MappedObjects : Occurrences(xsdTree[1], obj) = 1

(***************************************************************************)
(* C2 as the code has it: the shape maps are never overwritten; a call on  *)
(* a node shape that has been entered before returns the complex type of   *)
(* the map when that lowering has finished and none while it is still in   *)
(* progress; distinct identities have distinct nodes; a complex type       *)
(* occurs at most once in the schema root, as a child of the root in the   *)
(* pass that lowers it; every occurrence of a mapped node in the tree is   *)
(* the node of the map (a property node may occur under several parents).  *)
(***************************************************************************)
MapRange(map) == {map[s] : s \in DOMAIN map}

C2_OneNode ==
    /\ InProgress \cap DOMAIN node_shape_map = {}
    /\ stack # <<>> /\ Top.pc \in ReturnPoints
         => /\ Top.ret = IF Callee(Top) \in DOMAIN node_shape_map
                         THEN Some(node_shape_map[Callee(Top)]) ELSE None
            /\ Top.ret = None <=> Callee(Top) \in InProgress
    /\ \A s, t \in DOMAIN node_shape_map :
         node_shape_map[s].obj = node_shape_map[t].obj => s = t
    /\ \A s, t \in DOMAIN property_shape_map :
         property_shape_map[s].obj = property_shape_map[t].obj => s = t
    /\ \A s \in DOMAIN node_shape_map, t \in DOMAIN property_shape_map :
         node_shape_map[s].obj # property_shape_map[t].obj
    /\ xsd_root # None
         => /\ \A s \in DOMAIN node_shape_map :
                 /\ Occurrences(xsd_root[1], node_shape_map[s].obj) <= 1
                 /\ passes = 1 => \E i \in 1..Len(xsd_root[1].kids) :
                                     xsd_root[1].kids[i] = node_shape_map[s]
            /\ \A n \in Nodes(xsd_root[1]) :
                 n.obj # 0 => n \in MapRange(node_shape_map)
                                    \cup MapRange(property_shape_map)

C2_Stable ==
    /\ \A s \in DOMAIN node_shape_map :
         s \in DOMAIN node_shape_map' /\ node_shape_map'[s] = node_shape_map[s]
    /\ \A s \in DOMAIN property_shape_map :
         /\ s \in DOMAIN property_shape_map'
         /\ property_shape_map'[s] = property_shape_map[s]

C2_Cached == []C2_OneNode /\ [][C2_Stable]_vars

\* the base of the shape, lowered before, is met again in the sh:xone list
\* and the call has returned its complex type
C2_Witness ==
    /\ stack # <<>> /\ Top.pc = "xone_ret" /\ Top.extension
    /\ SHACL.node[Top.shape_uri] = Some(Head(Top.items))
    /\ Top.ret # None /\ Top.ret[1].obj = NodeObject(Head(Top.items))

(***************************************************************************)
(* Reading a lowered property node.                                        *)
(***************************************************************************)
\* the restriction inside the first inline simpleType of e, if any
RestrictionIn(simple_type) ==
    IF FirstChild(simple_type, "restriction") = 0 THEN None
    ELSE Some(simple_type.kids[FirstChild(simple_type, "restriction")])
Restriction(e) ==
    IF FirstChild(e, "simpleType") = 0 THEN None
    ELSE RestrictionIn(e.kids[FirstChild(e, "simpleType")])

\* the facets of e with one of the given tags, as <<tag, value>> in order
TagValue(kids) == [i \in 1..Len(kids) |-> <<kids[i].tag, kids[i].attrs["value"]>>]
FacetsAmong(kids, tags) ==
    LET Wanted(f) == f.tag \in tags IN TagValue(SelectSeq(kids, Wanted))
FacetsOf(e, tags) ==
    IF Restriction(e) = None THEN <<>>
    ELSE FacetsAmong(Restriction(e)[1].kids, tags)

\* the value of sh:in is an RDF list
IsList(v) ==
    \/ v = RDF_nil
    \/ v \in DOMAIN SHACL.first /\ SHACL.first[v] # None

(***************************************************************************)
(* C3: enumeration collapse.  A property shape with a path and an sh:in    *)
(* list of one member is lowered to a node with fixed = that member and no *)
(* type; a list of N > 1 members to an inline restriction with exactly N   *)
(* enumeration facets, the members in list order, and no type; the empty   *)
(* list to a node with no fixed attribute and no enumeration.              *)
(***************************************************************************)
C3_Lowered(e, members) ==
    IF Len(members) = 1
    THEN /\ HasAttr(e, "fixed") /\ e.attrs["fixed"] = Str(members[1])
         /\ ~ HasAttr(e, "type")
    ELSE IF Len(members) > 1
    THEN /\ FacetsOf(e, {"enumeration"})
              = [i \in 1..Len(members) |-> <<"enumeration", Str(members[i])>>]
         /\ ~ HasAttr(e, "type")
    ELSE /\ ~ HasAttr(e, "fixed")
         /\ FacetsOf(e, {"enumeration"}) = <<>>

C3_EnumerationCollapse ==
    \A x \in DOMAIN property_shape_map :
       SHACL.in[x] # None /\ IsList(SHACL.in[x][1])
         => C3_Lowered(property_shape_map[x], ListMembers(SHACL.in[x][1]))

(***************************************************************************)
(* C4: length collapse.  For a property shape that reaches                 *)
(* process_facet_constraints: with sh:length present the only length facet *)
(* written is length; with minLength = maxLength = v and no sh:length it   *)
(* is one length facet of value v; otherwise the minLength and maxLength   *)
(* facets that are present are written, and no length facet.               *)
(***************************************************************************)
LengthTags == {"length", "minLength", "maxLength"}

C4_Facets(min_length, max_length, length) ==
    IF length # None
    THEN << <<"length", ToString(length[1])>> >>
    ELSE IF min_length # None /\ max_length # None /\ min_length = max_length
    THEN << <<"length", ToString(min_length[1])>> >>
    ELSE (IF min_length # None
          THEN << <<"minLength", ToString(min_length[1])>> >> ELSE <<>>)
         \o (IF max_length # None
             THEN << <<"maxLength", ToString(max_length[1])>> >> ELSE <<>>)

C4_LengthCollapse ==
    \A x \in DOMAIN property_shape_map :
       property_shape_map[x].tag = "attribute" \/ SHACL.or[x] = None
         => FacetsOf(property_shape_map[x], LengthTags)
              = C4_Facets(SHACL.minLength[x], SHACL.maxLength[x],
                          SHACL.length[x])

\* a lowered shape with equal bounds and no sh:length carries a length facet
C4_Witness ==
    \E x \in DOMAIN property_shape_map :
       /\ SHACL.length[x] = None /\ SHACL.minLength[x] # None
       /\ SHACL.minLength[x] = SHACL.maxLength[x]
       /\ FacetsOf(property_shape_map[x], {"length"}) # <<>>
       /\ pc = "done"

(***************************************************************************)
(* Reading a lowered node shape.                                           *)
(***************************************************************************)
\* the children of the container of a complex type: those of its extension
\* when it has one
Container(ct) ==
    IF ct.kids # <<>> /\ ct.kids[1].tag = "complexContent"
    THEN ct.kids[1].kids[1].kids ELSE ct.kids

CountTag(kids, tag) == Cardinality({i \in 1..Len(kids) : kids[i].tag = tag})

\* every branch declares a datatype
ScalarUniform(branches) ==
    \A i \in 1..Len(branches) : SHACL.datatype[branches[i]] # None

\* the union over the datatypes of the branches, in branch order
UnionOf(branches) ==
    Append1(Element("simpleType"),
        SetAttr(Element("union"), "memberTypes",
            Join([i \in 1..Len(branches) |->
                    LocalName(SHACL.datatype[branches[i]][1])])))

\* the child of a choice that stands for a branch
BranchNode(branch) ==
    IF is_property(branch) THEN property_shape_map[branch]
    ELSE SetAttr(Element("element"), "ref", get_shape_name(branch))

\* the children for the branches, those in omitted left out
RECURSIVE BranchNodes(_, _)
BranchNodes(branches, omitted) ==
    IF branches = <<>> THEN <<>>
    ELSE (IF Head(branches) \in omitted THEN <<>>
          ELSE <<BranchNode(Head(branches))>>)
         \o BranchNodes(Tail(branches), omitted)

Members(branches) == {branches[i] : i \in 1..Len(branches)}

\* child stands for branch
Corresponds(child, branch) ==
    IF is_property(branch)
    THEN branch \in DOMAIN property_shape_map
         /\ child = property_shape_map[branch]
    ELSE child = SetAttr(Element("element"), "ref", get_shape_name(branch))

(***************************************************************************)
(* C5: disjunction policy, as claimed.  A node shape whose sh:or branches  *)
(* all declare a datatype gets a union of the datatype local names in      *)
(* branch order and no choice; with a branch without datatype it gets no   *)
(* union and a choice with one child per branch, in branch order.          *)
(***************************************************************************)
C5_Policy(kids, branches) ==
    IF ScalarUniform(branches)
    THEN /\ \E i \in 1..Len(kids) : kids[i] = UnionOf(branches)
         /\ CountTag(kids, "choice") = 0
    ELSE /\ CountTag(kids, "simpleType") = 0
         /\ \E i \in 1..Len(kids) :
              /\ kids[i].tag = "choice"
              /\ Len(kids[i].kids) = Len(branches)
              /\ \A j \in 1..Len(branches) :
                   Corresponds(kids[i].kids[j], branches[j])

C5_Original ==
    \A s \in DOMAIN node_shape_map :
       SHACL.or[s] # None
         => C5_Policy(Container(node_shape_map[s]),
                      ListMembers(SHACL.or[s][1]))

(***************************************************************************)
(* C5 as the code has it.  The disjunction adds one child to the container *)
(* of the type, after the choice of an sh:xone if there is one: the union  *)
(* when every branch declares a datatype, and otherwise a choice whose     *)
(* children are, in branch order, the nodes of the branches whose lowering *)
(* returned a node; a branch whose lowering returned none (a node shape    *)
(* still in progress, a property shape without a path) has no child.  It   *)
(* adds no other choice and no other simpleType.                           *)
(***************************************************************************)
\* the branches that have no node when the list has been processed
NotLowered(branches) ==
    {b \in Members(branches) :
       IF is_property(b) THEN b \notin DOMAIN property_shape_map
       ELSE b \notin DOMAIN node_shape_map}

\* the sets of branches that may have no node once the shape is finished:
\* the property shapes without a node and any of the node shapes
Omissions(branches) ==
    {o \in SUBSET Members(branches) :
       \A b \in Members(branches) :
          is_property(b) => (b \in o <=> b \notin DOMAIN property_shape_map)}

C5_Added(kids, k, branches, omitted) ==
    IF ScalarUniform(branches)
    THEN /\ kids[k] = UnionOf(branches)
         /\ CountTag(kids, "choice") = k - 1
         /\ CountTag(kids, "simpleType") = 1
    ELSE /\ kids[k].tag = "choice"
         /\ kids[k].kids \in {BranchNodes(branches, o) : o \in omitted}
         /\ CountTag(kids, "choice") = k
         /\ CountTag(kids, "simpleType") = 0

XoneChoices(s) == IF SHACL.xone[s] # None THEN 1 ELSE 0

C5_Disjunction ==
    /\ \A s \in DOMAIN node_shape_map :
         SHACL.or[s] # None /\ Len(Container(node_shape_map[s])) > XoneChoices(s)
           => C5_Added(Container(node_shape_map[s]), XoneChoices(s) + 1,
                       ListMembers(SHACL.or[s][1]),
                       Omissions(ListMembers(SHACL.or[s][1])))
    /\ \A s \in DOMAIN node_shape_map :
         SHACL.or[s] # None
           => Len(Container(node_shape_map[s])) > XoneChoices(s)
    /\ stack # <<>> /\ Top.pc = "property" /\ SHACL.or[Top.shape_uri] # None
         => /\ Len(ContainerKids(Top.complex_type, Top.extension))
                 = XoneChoices(Top.shape_uri) + 1
            /\ C5_Added(ContainerKids(Top.complex_type, Top.extension),
                        XoneChoices(Top.shape_uri) + 1,
                        ListMembers(SHACL.or[Top.shape_uri][1]),
                        {NotLowered(ListMembers(SHACL.or[Top.shape_uri][1]))})

\* the list (D1 B) has been processed and both branches have a child
C5_Witness ==
    /\ stack # <<>> /\ Top.pc = "property"
    /\ SHACL.or[Top.shape_uri] = Some("m1")
    /\ Len(ContainerKids(Top.complex_type, Top.extension)
             [XoneChoices(Top.shape_uri) + 1].kids) = 2

(***************************************************************************)
(* C6: target-class shortcut.  The top-level element emitted for a node    *)
(* shape with a target class has the base's name as its type exactly when  *)
(* the complex type extends a base and the shape has no properties, no     *)
(* sh:xone and no sh:or; in every other case its type is the shape's own   *)
(* type name.                                                              *)
(***************************************************************************)
HasExtension(ct) == ct.kids # <<>> /\ ct.kids[1].tag = "complexContent"

OnlyExtends(s) ==
    /\ HasExtension(node_shape_map[s])
    /\ SHACL.property[s] = <<>>
    /\ SHACL.xone[s] = None
    /\ SHACL.or[s] = None

\* the top-level elements emitted for the node shape s
TargetElements(s) ==
    {i \in 1..Len(xsd_root[1].kids) :
       /\ xsd_root[1].kids[i].tag = "element"
       /\ xsd_root[1].kids[i].obj = 0
       /\ xsd_root[1].kids[i].attrs["name"] = get_shape_name(s)}

C6_TargetClassShortcut ==
    xsd_root # None
      => \A s \in DOMAIN node_shape_map :
           /\ passes = 1
                => Cardinality(TargetElements(s)) = Len(SHACL.targetClass[s])
           /\ \A i \in TargetElements(s) :
                xsd_root[1].kids[i].attrs["type"]
                  = IF OnlyExtends(s)
                    THEN get_shape_name(SHACL.node[s][1])
                    ELSE get_shape_name(s)

(***************************************************************************)
(* C7: an occurs bound of 1 is never written.  No node of the tree has     *)
(* minOccurs or maxOccurs equal to 1 and no attribute node has an occurs   *)
(* bound; an element-kind property shape without sh:or has minOccurs iff   *)
(* minCount is present and differs from 1, then with its value, and the    *)
(* same for maxOccurs and maxCount; a shape with a path and a datatype and *)
(* no other constraint is an element with no occurs bound and the          *)
(* datatype's local name as type.                                          *)
(***************************************************************************)
OccursOf(e, attr, count) ==
    IF count # None /\ count[1] # 1
    THEN HasAttr(e, attr) /\ e.attrs[attr] = ToString(count[1])
    ELSE ~ HasAttr(e, attr)

NoUnitOccurs(n) ==
    /\ HasAttr(n, "minOccurs") => n.attrs["minOccurs"] # "1"
    /\ HasAttr(n, "maxOccurs") => n.attrs["maxOccurs"] # "1"
    /\ n.tag = "attribute"
         => ~ HasAttr(n, "minOccurs") /\ ~ HasAttr(n, "maxOccurs")

\* x has a datatype and neither an enumeration nor a facet
PlainScalar(x) ==
    /\ SHACL.datatype[x] # None
    /\ SHACL.in[x] = None /\ SHACL.pattern[x] = None
    /\ SHACL.minLength[x] = None /\ SHACL.maxLength[x] = None
    /\ SHACL.length[x] = None

C7_ElementOccurs(x, e) ==
    /\ OccursOf(e, "minOccurs", SHACL.minCount[x])
    /\ OccursOf(e, "maxOccurs", SHACL.maxCount[x])
    /\ PlainScalar(x)
         => /\ HasAttr(e, "type")
            /\ e.attrs["type"] = LocalName(SHACL.datatype[x][1])
            /\ e.kids = <<>>

C7_Occurs ==
    /\ xsd_root # None => \A n \in Nodes(xsd_root[1]) : NoUnitOccurs(n)
    /\ \A x \in DOMAIN property_shape_map :
         /\ NoUnitOccurs(property_shape_map[x])
         /\ property_shape_map[x].tag = "element" /\ SHACL.or[x] = None
              => C7_ElementOccurs(x, property_shape_map[x])

\* a lowered element whose shape has minCount 1 and a maxCount other than 1
C7_Witness ==
    \E x \in DOMAIN property_shape_map :
       /\ property_shape_map[x].tag = "element"
       /\ SHACL.minCount[x] = Some(1)
       /\ SHACL.maxCount[x] # None /\ HasAttr(property_shape_map[x], "maxOccurs")
       /\ ~ HasAttr(property_shape_map[x], "minOccurs")
       /\ pc = "done"

(***************************************************************************)
(* C8: a property shape without a path is skipped, as claimed: it never    *)
(* gets a node, no node for it is anywhere in the tree, and the enclosing  *)
(* node shape is lowered exactly as if the reference were absent, so a     *)
(* shape all of whose property references are skipped gets no all group    *)
(* and keeps the target-class shortcut of a shape without properties.      *)
(***************************************************************************)
HasPath(x) == SHACL.path[x] # None
WithPath(property_nodes) == SelectSeq(property_nodes, HasPath)
Pathless == {x \in Members(SHACL.property_shapes) : ~ HasPath(x)}

\* no element or attribute of the tree is named after a skipped shape
NoNodeFor(x) ==
    xsd_root # None
      => \A n \in Nodes(xsd_root[1]) :
           n.tag \in {"element", "attribute"} /\ HasAttr(n, "name")
             => n.attrs["name"] # strip_marker(is_attribute(x),
                                               get_shape_name(x))

C8_SkippedNodes ==
    \A x \in Pathless : x \notin DOMAIN property_shape_map /\ NoNodeFor(x)

C8_Original ==
    /\ C8_SkippedNodes
    /\ \A s \in DOMAIN node_shape_map :
         WithPath(SHACL.property[s]) = <<>>
           => /\ CountTag(Container(node_shape_map[s]), "all") = 0
              /\ xsd_root # None /\ HasExtension(node_shape_map[s])
                   /\ SHACL.xone[s] = None /\ SHACL.or[s] = None
                   => \A i \in TargetElements(s) :
                        xsd_root[1].kids[i].attrs["type"]
                          = get_shape_name(SHACL.node[s][1])

(***************************************************************************)
(* C8 as the code has it: the skipped shape never gets a node and no node  *)
(* for it is in the tree; the loop over the property references of a node  *)
(* shape gives the same complex type and the same property map as the loop *)
(* over the references with a path, the skipped shapes joining the         *)
(* processed-set.  The reference still counts as a declared property: a    *)
(* shape with any property reference and no sh:xone or sh:or gets its all  *)
(* group, empty when every reference is skipped, and its top-level         *)
(* elements have the shape's own type name.                                *)
(***************************************************************************)
\* the complex type the loop over the property references starts from
BeforeProperties(f) ==
    IF with_all(f.shape_uri)
    THEN AppendIn(f.complex_type, f.extension, 0, Element("all"))
    ELSE f.complex_type

PropertyGroup(f) ==
    IF with_all(f.shape_uri)
    THEN Len(ContainerKids(BeforeProperties(f), f.extension)) ELSE 0

SameLowering(done, done_with_path, skipped) ==
    /\ done.complex_type = done_with_path.complex_type
    /\ done.r.pmap = done_with_path.r.pmap
    /\ done.r.next_obj = done_with_path.r.next_obj
    /\ done.r.processed = done_with_path.r.processed \cup skipped

C8_Skipped ==
    /\ C8_SkippedNodes
    /\ stack # <<>> /\ Top.pc = "property"
         => SameLowering(
              lower_properties(Top.shape_uri, BeforeProperties(Top),
                               Top.extension),
              property_loop(Registry, BeforeProperties(Top), Top.extension,
                            PropertyGroup(Top),
                            WithPath(SHACL.property[Top.shape_uri])),
              Members(SHACL.property[Top.shape_uri]) \ {x \in Subjects : HasPath(x)})
    /\ \A s \in DOMAIN node_shape_map :
         SHACL.property[s] # <<>> /\ SHACL.xone[s] = None /\ SHACL.or[s] = None
           => CountTag(Container(node_shape_map[s]), "all") = 1
    /\ \A s \in DOMAIN node_shape_map :
         SHACL.property[s] # <<>> /\ xsd_root # None
           => \A i \in TargetElements(s) :
                xsd_root[1].kids[i].attrs["type"] = get_shape_name(s)

\* a node shape over a skipped property shape and a lowered one is finished
C8_Witness ==
    \E s \in DOMAIN node_shape_map :
       /\ Members(SHACL.property[s]) \cap Pathless # {}
       /\ Members(SHACL.property[s]) \cap DOMAIN property_shape_map # {}
       /\ Pathless \subseteq processed_shapes
       /\ pc = "done"

(***************************************************************************)
(* C9: no state survives a conversion pass.  Every pass starts from an     *)
(* empty processed-set and empty shape maps, and a pass over the unchanged *)
(* graph ends with a tree equal to the tree of the pass before.            *)
(***************************************************************************)
C9_PassStart ==
    pc # "node_shapes" /\ pc' = "node_shapes"
      => /\ processed_shapes' = {}
         /\ node_shape_map' = <<>>
         /\ property_shape_map' = <<>>

C9_SameTree ==
    pc' = "done" /\ xsdTree # None /\ xsdTree' # xsdTree
      => Plain(xsdTree'[1]) = Plain(xsdTree[1])

C9_FreshPass == [][C9_PassStart /\ C9_SameTree]_vars

(***************************************************************************)
(* C10: order of the schema root, as claimed: in the finished tree every   *)
(* top-level element precedes every complex type.                          *)
(***************************************************************************)
C10_Original ==
    pc = "done"
      => \A i, j \in 1..Len(xsdTree[1].kids) :
           xsdTree[1].kids[i].tag = "complexType"
             /\ xsdTree[1].kids[j].tag = "element" => j < i

(***************************************************************************)
(* C10 as the code has it.  The schema root only grows during a pass.  It  *)
(* holds one block per node shape lowered in the pass, in the order in     *)
(* which the lowerings finish: the top-level elements of the shape, one    *)
(* per target class, immediately followed by its complex type.  The        *)
(* elements of the property shapes not reached through any node shape come *)
(* after all blocks, in the order of the graph.                            *)
(***************************************************************************)
IsTargetElement(n) == n.tag = "element" /\ n.obj = 0
IsStandalone(n) == n.tag = "element" /\ n.obj # 0

\* what follows a child of the root
C10_Blocks(kids) ==
    \A i \in 1..Len(kids) :
       /\ kids[i].tag \in {"element", "complexType"}
       /\ IsTargetElement(kids[i])
            => /\ i < Len(kids)
               /\ kids[i + 1].attrs["name"] = kids[i].attrs["name"]
               /\ IsTargetElement(kids[i + 1]) \/ kids[i + 1].tag = "complexType"
       /\ IsStandalone(kids[i])
            => \A j \in (i + 1)..Len(kids) : IsStandalone(kids[j])
       /\ kids[i].tag = "complexType"
            => Cardinality({j \in 1..(i - 1) :
                              /\ IsTargetElement(kids[j])
                              /\ kids[j].attrs["name"] = kids[i].attrs["name"]})
                 = Len(SHACL.targetClass[
                         CHOOSE s \in DOMAIN node_shape_map :
                            node_shape_map[s] = kids[i]])

IsPrefix(a, b) == Len(a) <= Len(b) /\ SubSeq(b, 1, Len(a)) = a

\* within a pass the root only grows; a finished lowering puts its complex
\* type last; the last step of convert adds the standalone elements in the
\* order of the graph
C10_Appends ==
    /\ xsd_root # None /\ pc = "node_shapes"
         => IsPrefix(xsd_root[1].kids, xsd_root'[1].kids)
    /\ stack # <<>> /\ Top.pc = "property"
         => /\ xsd_root'[1].kids[Len(xsd_root'[1].kids)]
                 = node_shape_map'[Top.shape_uri]
            /\ Len(xsd_root'[1].kids)
                 = Len(xsd_root[1].kids)
                   + Len(SHACL.targetClass[Top.shape_uri]) + 1
    /\ pc = "node_shapes" /\ pc' = "done"
         => SubSeq(xsd_root'[1].kids, Len(xsd_root[1].kids) + 1,
                   Len(xsd_root'[1].kids))
              = LET Standalone(ps) ==
                      /\ ps \notin processed_shapes
                      /\ ps \in DOMAIN property_shape_map'
                      /\ property_shape_map'[ps].tag = "element"
                    Node(ps) == property_shape_map'[ps]
                IN [i \in 1..Len(SelectSeq(SHACL.property_shapes, Standalone))
                      |-> Node(SelectSeq(SHACL.property_shapes, Standalone)[i])]

C10_RootOrder ==
    /\ [](xsd_root # None => C10_Blocks(xsd_root[1].kids))
    /\ [][C10_Appends]_vars

\* a finished tree in which a complex type precedes a top-level element
\* of another node shape and a standalone element
C10_Witness ==
    /\ pc = "done"
    /\ \E i, j, k \in 1..Len(xsdTree[1].kids) :
         /\ i < j /\ j < k
         /\ xsdTree[1].kids[i].tag = "complexType"
         /\ IsTargetElement(xsdTree[1].kids[j])
         /\ IsStandalone(xsdTree[1].kids[k])

(***************************************************************************)
(* C11: the base of an extension is resolvable.  Whenever a complex type   *)
(* under construction has an extension, the base names a complex type      *)
(* already in the schema root or a shape being lowered; in the root every  *)
(* complex type with an extension comes after a complex type with the      *)
(* name of its base.                                                       *)
(***************************************************************************)
BaseOf(ct) == ct.kids[1].kids[1].attrs["base"]

\* the names of the complex types among the first n children of the root
TypeNames(n) ==
    {xsd_root[1].kids[j].attrs["name"] :
       j \in {k \in 1..n : xsd_root[1].kids[k].tag = "complexType"}}

C11_BaseResolvable ==
    /\ \A i \in 1..Len(stack) :
         stack[i].extension
           => /\ HasExtension(stack[i].complex_type)
              /\ BaseOf(stack[i].complex_type)
                   = get_shape_name(SHACL.node[stack[i].shape_uri][1])
              /\ BaseOf(stack[i].complex_type)
                   \in TypeNames(Len(xsd_root[1].kids))
                       \cup {get_shape_name(s) : s \in InProgress}
    /\ xsd_root # None
         => \A i \in 1..Len(xsd_root[1].kids) :
              xsd_root[1].kids[i].tag = "complexType"
                /\ HasExtension(xsd_root[1].kids[i])
                => BaseOf(xsd_root[1].kids[i]) \in TypeNames(i - 1)

\* a finished tree with an extending complex type
C11_Witness ==
    /\ pc = "done"
    /\ \E i \in 1..Len(xsdTree[1].kids) :
         /\ xsdTree[1].kids[i].tag = "complexType"
         /\ HasExtension(xsdTree[1].kids[i])

(***************************************************************************)
(* C12: facets.  A property shape without sh:or that has a pattern, a      *)
(* numeric bound or a length bound is lowered to a node with an inline     *)
(* restriction in which each of these facets appears (the length bounds as *)
(* in C4), and the node has no type attribute; a shape with numeric bounds *)
(* only is no exception.                                                   *)
(***************************************************************************)
Range(seq) == {seq[i] : i \in 1..Len(seq)}

NumericTags == {"minExclusive", "maxExclusive", "minInclusive", "maxInclusive"}

\* the facets the constraints of x ask for, as <<tag, value>>
C12_Asked(x) ==
    (IF SHACL.pattern[x] # None
     THEN {<<"pattern", Str(SHACL.pattern[x][1])>>} ELSE {})
    \cup {<<tag, ToString(SHACL[tag][x][1])>> :
            tag \in {t \in NumericTags : SHACL[t][x] # None}}
    \cup Range(C4_Facets(SHACL.minLength[x], SHACL.maxLength[x],
                         SHACL.length[x]))

C12_Facets ==
    \A x \in DOMAIN property_shape_map :
       SHACL.or[x] = None /\ C12_Asked(x) # {}
         => /\ Restriction(property_shape_map[x]) # None
            /\ C12_Asked(x)
                 \subseteq Range(TagValue(Restriction(property_shape_map[x])[1].kids))
            /\ ~ HasAttr(property_shape_map[x], "type")

(***************************************************************************)
(* C13: sh:xone and sh:or as alternatives, as claimed: a node shape with   *)
(* both gets the choice of the sh:xone only, and the container of a        *)
(* complex type never holds more than one choice or union group.           *)
(***************************************************************************)
Groups(kids) == CountTag(kids, "choice") + CountTag(kids, "simpleType")

C13_Original ==
    \A s \in DOMAIN node_shape_map :
       /\ Groups(Container(node_shape_map[s])) <= 1
       /\ SHACL.xone[s] # None /\ SHACL.or[s] # None
            => /\ CountTag(Container(node_shape_map[s]), "choice") = 1
               /\ CountTag(Container(node_shape_map[s]), "simpleType") = 0

(***************************************************************************)
(* C13 as the code has it: sh:xone and sh:or are lowered independently,    *)
(* the sh:xone first.  The container starts with the choice of the sh:xone *)
(* if there is one, followed by the union or choice of the sh:or if there  *)
(* is one; it holds one group per constraint, two for a shape with both.   *)
(***************************************************************************)
OrGroupTag(s) ==
    IF ScalarUniform(ListMembers(SHACL.or[s][1])) THEN "simpleType"
    ELSE "choice"

GroupTags(s) ==
    (IF SHACL.xone[s] # None THEN <<"choice">> ELSE <<>>)
    \o (IF SHACL.or[s] # None THEN <<OrGroupTag(s)>> ELSE <<>>)

C13_Leading(kids, tags) ==
    /\ Len(kids) >= Len(tags)
    /\ \A i \in 1..Len(tags) : kids[i].tag = tags[i]
    /\ Groups(kids) = Len(tags)

C13_BothGroups ==
    /\ \A s \in DOMAIN node_shape_map :
         C13_Leading(Container(node_shape_map[s]), GroupTags(s))
    /\ stack # <<>> /\ Top.pc = "or" /\ SHACL.xone[Top.shape_uri] # None
         => /\ Len(ContainerKids(Top.complex_type, Top.extension)) = 1
            /\ ContainerKids(Top.complex_type, Top.extension)[1].tag = "choice"
            /\ ContainerKids(Top.complex_type, Top.extension)[1].kids
                 = BranchNodes(ListMembers(SHACL.xone[Top.shape_uri][1]),
                       NotLowered(ListMembers(SHACL.xone[Top.shape_uri][1])))

\* a finished node shape with sh:xone and sh:or and two groups
C13_Witness ==
    \E s \in DOMAIN node_shape_map :
       /\ SHACL.xone[s] # None /\ SHACL.or[s] # None
       /\ Groups(Container(node_shape_map[s])) = 2
       /\ pc = "done"

(***************************************************************************)
(* C14: where the properties of a node shape go, as claimed: an element    *)
(* result of a shape with an sh:xone or sh:or is a child of the choice or  *)
(* union group itself, not a sibling of the group.                         *)
(***************************************************************************)
\* the nodes of the given kind lowered for the property references of s,
\* in declared order
LoweredAs(s, tags) ==
    LET Kept(x) == /\ x \in DOMAIN property_shape_map
                   /\ property_shape_map[x].tag \in tags
        refs == SelectSeq(SHACL.property[s], Kept)
    IN [i \in 1..Len(refs) |-> property_shape_map[refs[i]]]

HasGroup(s) == SHACL.xone[s] # None \/ SHACL.or[s] # None

InsideGroup(kids, node) ==
    \E i \in 1..Len(kids) :
       kids[i].tag \in {"choice", "simpleType"} /\ node \in Range(kids[i].kids)

C14_Original ==
    \A s \in DOMAIN node_shape_map :
       HasGroup(s)
         => \A node \in Range(LoweredAs(s, {"element"})) :
              /\ InsideGroup(Container(node_shape_map[s]), node)
              /\ node \notin Range(Container(node_shape_map[s]))

(***************************************************************************)
(* C14 as the code has it.  For each property of a node shape, in declared *)
(* order: an attribute result becomes a direct child of the complex type;  *)
(* an element result becomes a child of an all group when the shape has    *)
(* neither sh:xone nor sh:or, and otherwise a child of the type body or    *)
(* extension, after the choice and union groups, whose children stay the   *)
(* nodes of their own branches.                                            *)
(***************************************************************************)
AllGroup(nodes) == [Element("all") EXCEPT !.kids = nodes]

\* what the properties add to the container and to the complex type
C14_InContainer(s, extended) ==
    IF with_all(s)
    THEN <<AllGroup(LoweredAs(s, {"element"}))>>
         \o (IF extended THEN <<>> ELSE LoweredAs(s, {"attribute"}))
    ELSE LoweredAs(s, IF extended THEN {"element"}
                      ELSE {"element", "attribute"})

After(kids, n) == SubSeq(kids, n + 1, Len(kids))

C14_Placed(s, ct) ==
    /\ After(Container(ct), Len(GroupTags(s)))
         = C14_InContainer(s, HasExtension(ct))
    /\ HasExtension(ct) => After(ct.kids, 1) = LoweredAs(s, {"attribute"})
    /\ SHACL.xone[s] # None
         => Container(ct)[1].kids
              \in {BranchNodes(ListMembers(SHACL.xone[s][1]), o) :
                     o \in Omissions(ListMembers(SHACL.xone[s][1]))}

C14_Attachment ==
    \A s \in DOMAIN node_shape_map : C14_Placed(s, node_shape_map[s])

\* a finished shape with a group, an element beside it and an attribute
C14_Witness ==
    \E s \in DOMAIN node_shape_map :
       /\ HasGroup(s) /\ HasExtension(node_shape_map[s])
       /\ LoweredAs(s, {"element"}) # <<>>
       /\ LoweredAs(s, {"attribute"}) # <<>>
       /\ pc = "done"

(***************************************************************************)
(* C15: the list walker on a well-formed list.  For every list the         *)
(* lowering has walked (the sh:in of a lowered property shape, the sh:xone *)
(* and sh:or of a finished node shape), get_rdf_list_items gives one entry *)
(* per cell, the payloads in chain order, whatever the payloads are.       *)
(***************************************************************************)
WalkedLists ==
    {SHACL.in[x][1] : x \in {y \in DOMAIN property_shape_map :
                               SHACL.in[y] # None /\ IsList(SHACL.in[y][1])}}
    \cup {SHACL.xone[s][1] : s \in {t \in DOMAIN node_shape_map :
                                      SHACL.xone[t] # None}}
    \cup {SHACL.or[s][1] : s \in {t \in DOMAIN node_shape_map :
                                    SHACL.or[t] # None}}

C15_OnePerCell ==
    \A head \in WalkedLists : get_rdf_list_items(head) = ListMembers(head)

(***************************************************************************)
(* C16: the walk of a malformed list terminates.  Whatever the rest links  *)
(* of the cells are (missing, or leading back to an earlier cell),         *)
(* get_rdf_list_items eventually returns.                                  *)
(***************************************************************************)
C16_Terminates == <>(walk.pc = "returned")

(***************************************************************************)
(* C17: an identity that is referenced but never defined, as claimed: no   *)
(* failure, the reference to its name is kept, and the output holds no     *)
(* complex type or element created for it.                                 *)
(***************************************************************************)
ValueFields == DOMAIN SHACL \ {"node_shapes", "property_shapes", "first", "rest"}

\* the identities without any triple of their own
Undefined ==
    {s \in Subjects :
       /\ s \notin Members(SHACL.node_shapes) \cup Members(SHACL.property_shapes)
       /\ \A k \in ValueFields : SHACL[k][s] = <<>>}

NamedTypes(name) ==
    {i \in 1..Len(xsd_root[1].kids) :
       /\ xsd_root[1].kids[i].tag = "complexType"
       /\ xsd_root[1].kids[i].attrs["name"] = name}

C17_Original ==
    \A s \in Undefined :
       /\ s \notin DOMAIN node_shape_map
       /\ xsd_root # None => NamedTypes(get_shape_name(s)) = {}

(***************************************************************************)
(* C17 as the code has it: the undefined identity is lowered like a node   *)
(* shape without constraints.  No failure; the referring type keeps the    *)
(* reference to its name (the extension base, the reference element of the *)
(* list), and the schema root gets an empty complex type of that name, in  *)
(* the pass that lowers it; no element is created for it.                  *)
(***************************************************************************)
EmptyType(name) == SetAttr([Element("complexType") EXCEPT !.obj = 0], "name", name)

Reference(name) == SetAttr(Element("element"), "ref", name)

C17_Lowered(s) ==
    /\ s \in processed_shapes /\ s \notin InProgress
         => s \in DOMAIN node_shape_map
    /\ s \in DOMAIN node_shape_map
         => /\ [node_shape_map[s] EXCEPT !.obj = 0] = EmptyType(get_shape_name(s))
            /\ xsd_root # None /\ passes = 1
                 => Cardinality(NamedTypes(get_shape_name(s))) = 1
            /\ xsd_root # None => TargetElements(s) = {}

C17_ReferenceKept(s, t) ==
    /\ SHACL.node[t] = Some(s)
         => /\ HasExtension(node_shape_map[t])
            /\ BaseOf(node_shape_map[t]) = get_shape_name(s)
    /\ SHACL.or[t] # None /\ s \in Members(ListMembers(SHACL.or[t][1]))
         => Reference(get_shape_name(s))
              \in Range(Container(node_shape_map[t])[XoneChoices(t) + 1].kids)

C17_EmptyType ==
    \A s \in Undefined :
       /\ C17_Lowered(s)
       /\ \A t \in DOMAIN node_shape_map : C17_ReferenceKept(s, t)

\* an undefined identity has been lowered for a base and for a list
C17_Witness ==
    /\ pc = "done" /\ passes = 1
    /\ \E s \in Undefined, t \in DOMAIN node_shape_map :
         /\ SHACL.node[t] = Some(s)
         /\ SHACL.or[t] # None /\ s \in Members(ListMembers(SHACL.or[t][1]))
         /\ NamedTypes(get_shape_name(s)) # {}

(***************************************************************************)
(* C18: the base type.  For a lowered property shape without sh:or: with a *)
(* datatype, the type attribute and the base of the inline restriction are *)
(* the datatype's local name; without a datatype, the restriction for      *)
(* textual facets (pattern, length bounds) has a generic text base and a   *)
(* restriction for numeric bounds alone a generic numeric base.            *)
(***************************************************************************)
Textual(x) ==
    \/ SHACL.pattern[x] # None /\ Truthy(SHACL.pattern[x][1])
    \/ SHACL.minLength[x] # None
    \/ SHACL.maxLength[x] # None
    \/ SHACL.length[x] # None

Numeric(x) == \E t \in NumericTags : SHACL[t][x] # None

BaseIs(e, base) == Restriction(e)[1].attrs["base"] = base

C18_Base(x, e) ==
    IF SHACL.datatype[x] # None
    THEN /\ HasAttr(e, "type")
              => e.attrs["type"] = LocalName(SHACL.datatype[x][1])
         /\ Restriction(e) # None
              => BaseIs(e, LocalName(SHACL.datatype[x][1]))
    ELSE /\ Textual(x) /\ ~ Numeric(x)
              => Restriction(e) # None /\ BaseIs(e, "string")
         /\ Numeric(x) /\ ~ Textual(x) /\ Restriction(e) # None
              => BaseIs(e, "decimal")

C18_BaseType ==
    \A x \in DOMAIN property_shape_map :
       SHACL.or[x] = None => C18_Base(x, property_shape_map[x])

====
